---- MODULE Spec2Model ----
(***************************************************************************)
(* Model of src/serialize/per_type/dataclass.rs: the three serializers     *)
(* DataclassGenericSerializer, DataclassFastSerializer and                 *)
(* DataclassFallbackSerializer, run as a recursive descent over a bounded  *)
(* graph of dataclass instances.  The Rust call stack is the variable      *)
(* stack; one action is one straight-line stretch of a serialize() body    *)
(* between two calls into a nested serializer.                             *)
(***************************************************************************)
EXTENDS Integers, Sequences, FiniteSets, TLC

(* ------------------------------ bounds -------------------------------- *)
\* the configured recursion limit L (255 in the real build)
Limit == 2
\* largest number of members of one dataclass
MaxFields == 2

(* --------------------------- program constants ------------------------ *)
\* b'_'
Underscore == 95

\* the _field_type marker the fallback path compares against, and another one
FIELD_TYPE == "_FIELD"
Kinds == {"_FIELD", "_FIELD_CLASSVAR"}

\* the optional default hook handed to the top-level call
Defaults == {"None", "Some"}

(* ------------------------------ objects ------------------------------- *)
RecIds == 1..Limit
\* a second instance with the members of instance 1 and no __dict__
Twin == Limit + 1

Scalar == [isRec |-> FALSE, id |-> 0]
Rec(r) == [isRec |-> TRUE, id |-> r]

\* key objects: ty is the Python type, ok says whether to_str() decodes it,
\* bytes is its raw content.  The undecodable text key starts with an
\* underscore (such as "_\udc80"): decoding must reject it before the
\* underscore filter can look at it.
KeyClasses == {"int", "bad", "empty", "under", "plain"}
MkKey(cls, i) ==
  CASE cls = "int"   -> [ty |-> "int", ok |-> FALSE, bytes |-> <<48 + i>>]
    [] cls = "bad"   -> [ty |-> "str", ok |-> FALSE, bytes |-> <<Underscore, 48 + i>>]
    [] cls = "empty" -> [ty |-> "str", ok |-> TRUE,  bytes |-> <<>>]
    [] cls = "under" -> [ty |-> "str", ok |-> TRUE,  bytes |-> <<Underscore, 96 + i>>]
    [] OTHER         -> [ty |-> "str", ok |-> TRUE,  bytes |-> <<96 + i>>]

\* a member of the record type: its key class, its kind and its value:
\* a scalar, or the next instance of the chain, where the chain either ends
\* with a scalar ("chain") or closes on instance 1 ("ring")
Links == {"scalar", "chain", "ring"}
MemberSpecs ==
  { [cls |-> c, kind |-> k, nxt |-> n] : c \in KeyClasses, k \in Kinds, n \in Links }

\* a key that is not text is an instance attribute only, and the pseudo-fields
\* (ClassVar, InitVar) are drawn with a plain or an undecodable name
WellFormedSpec(m) == m.kind # FIELD_TYPE => m.cls \in {"bad", "plain"}

Templates ==
  UNION { { t \in [1..n -> MemberSpecs] :
              /\ \A i \in 1..n : WellFormedSpec(t[i])
              /\ Cardinality({ i \in 1..n : t[i].cls = "empty" }) <= 1 }
          : n \in 0..MaxFields }

Flags == [hasDict : BOOLEAN, slots : BOOLEAN]

\* the nested instances are of a plain dataclass or of a slots=True one
InnerFlags == { [hasDict |-> TRUE, slots |-> FALSE], [hasDict |-> FALSE, slots |-> TRUE] }

\* the instance graph: instances 1..Limit of one linked record type, each
\* linked member pointing at the following instance
NextOf(r, link) ==
  IF link = "scalar" THEN Scalar
  ELSE IF r < Limit THEN Rec(r + 1)
  ELSE IF link = "ring" THEN Rec(1) ELSE Scalar

Members(t, r) ==
  [ i \in 1..Len(t) |->
      [key |-> MkKey(t[i].cls, i), kind |-> t[i].kind, val |-> NextOf(r, t[i].nxt)] ]

Build(t, rootFlags, innerFlags) ==
  [ r \in 1..Twin |->
      IF r = Twin
        THEN [hasDict |-> FALSE, slots |-> rootFlags.slots, members |-> Members(t, 1)]
        ELSE [hasDict |-> IF r = 1 THEN rootFlags.hasDict ELSE innerFlags.hasDict,
              slots   |-> IF r = 1 THEN rootFlags.slots ELSE innerFlags.slots,
              members |-> Members(t, r)] ]

VARIABLES
  heap,        \* the instances: flags and members
  pending,     \* the top-level calls still to make
  stack,       \* the Rust call stack of serialize() frames
  ret,         \* the Result just returned by the frame popped last
  out,         \* what the sink has been handed in this call
  refs,        \* per instance: __dict__ references held by the serializer
  acquired,    \* __dict__ references obtained in this call
  released,    \* __dict__ references dropped in this call
  errPending,  \* the interpreter's error indicator
  lookups,     \* PyObject_GetAttr(obj, attr) calls made in this call
  status,      \* idle | running | panic
  cur,         \* the call in progress
  done         \* the calls that have returned

vars == <<heap, pending, stack, ret, out, refs, acquired, released, errPending,
          lookups, status, cur, done>>

(* ------------------------ host object runtime ------------------------- *)
\* obj.__dict__: the instance attributes, in insertion order
Store(r) ==
  LET ms == SelectSeq(heap[r].members, LAMBDA m : m.kind = FIELD_TYPE)
  IN  [ i \in 1..Len(ms) |-> [key |-> ms[i].key, val |-> ms[i].val] ]

\* obj.__dataclass_fields__: name -> Field, in declaration order
Fields(r) ==
  LET ms == SelectSeq(heap[r].members, LAMBDA m : m.key.ty = "str")
  IN  [ i \in 1..Len(ms) |-> [attr |-> ms[i].key, field_type |-> ms[i].kind] ]

\* PyObject_GetAttr(obj, attr) for a declared attribute; every declared
\* attribute is set on the instance, which the fallback path takes for granted
GetAttrValue(r, attr) ==
  LET ms == SelectSeq(heap[r].members, LAMBDA m : m.key = attr)
  IN  ms[1].val

\* PyObject_GetAttr(obj, "__dict__"): a new reference, or NULL with the
\* error indicator set
GetAttrDict(r) ==
  IF heap[r].hasDict THEN [null |-> FALSE, err |-> errPending]
  ELSE [null |-> TRUE, err |-> TRUE]

\* pydict_contains!(ob_type, SLOTS_STR)
HasSlots(r) == heap[r].slots

\* mutant: the key's type is not checked
IsStrType_Unchecked(key) == TRUE

\* is_class_by_type!(key_ob_type, STR_TYPE)
IsStrType(key) == key.ty = "str"

\* PyStr::to_str(): Some(uni) when the text decodes
ToStrIsSome(key) == key.ok

(* --------------------------- SerializerState -------------------------- *)
recursion_limit(state) == state >= Limit

copy_for_recursive_call(state) == state + 1

(* ------------------------------ frames -------------------------------- *)
GenericNew(ptr, state, default) ==
  [fn |-> "generic", ptr |-> ptr, state |-> state, default |-> default,
   pc |-> "enter", i |-> 0]

FastNew(ptr, state, default) ==
  [fn |-> "fast", ptr |-> ptr, state |-> copy_for_recursive_call(state),
   default |-> default, pc |-> "enter", i |-> 0]

\* mutant: the fallback serializer keeps the caller's state
FallbackNew_SameState(ptr, state, default) ==
  [fn |-> "fallback", ptr |-> ptr, state |-> state,
   default |-> default, pc |-> "enter", i |-> 0]

FallbackNew(ptr, state, default) ==
  [fn |-> "fallback", ptr |-> ptr, state |-> copy_for_recursive_call(state),
   default |-> default, pc |-> "enter", i |-> 0]

Top == stack[Len(stack)]
Pop == SubSeq(stack, 1, Len(stack) - 1)
SetTop(f) == [stack EXCEPT ![Len(stack)] = f]
Running(fn, pc) ==
  /\ status = "running"
  /\ stack # <<>>
  /\ Top.fn = fn
  /\ Top.pc = pc

(* ------------------------------- sink --------------------------------- *)
Ev(ev, name, state, val, default) ==
  [ev |-> ev, name |-> name, state |-> state, val |-> val, default |-> default]

EvBegin == Ev("begin", <<>>, 0, Scalar, "None")
EvEnd == Ev("end", <<>>, 0, Scalar, "None")
EvEmpty == Ev("empty", <<>>, 0, Scalar, "None")
EvKey(name, state) == Ev("key", name, state, Scalar, "None")
\* PyObjectSerializer::new(value, state, default) handed to serialize_value
EvValue(val, state, default) == Ev("value", <<>>, state, val, default)


(* --------------------------- initial states --------------------------- *)
InitWith(h, calls) ==
  /\ heap = h
  /\ pending = calls
  /\ stack = <<>>
  /\ ret = "none"
  /\ out = <<>>
  /\ refs = [r \in 1..Twin |-> 0]
  /\ acquired = 0
  /\ released = 0
  /\ errPending = FALSE
  /\ lookups = <<>>
  /\ status = "idle"
  /\ cur = [ptr |-> 0, default |-> "None"]
  /\ done = <<>>

\* one top-level call on instance 1 of any instance graph
Init ==
  \E t \in Templates, rf \in Flags, inf \in InnerFlags, d \in Defaults :
    InitWith(Build(t, rf, inf), <<[ptr |-> 1, default |-> d]>>)

\* two top-level calls with the same default: on instance 1, which has a
\* __dict__ and no __slots__, and on its twin, which has the same members and
\* no __dict__
InitEq ==
  \E t \in Templates, inf \in InnerFlags, d \in Defaults :
    InitWith(Build(t, [hasDict |-> TRUE, slots |-> FALSE], inf),
             <<[ptr |-> 1, default |-> d], [ptr |-> Twin, default |-> d]>>)

(* ------------------------ the top-level caller ------------------------ *)
\* PyObjectSerializer hands a dataclass instance to DataclassGenericSerializer
Dumps ==
  /\ status = "idle"
  /\ pending # <<>>
  /\ stack' = <<GenericNew(Head(pending).ptr, 0, Head(pending).default)>>
  /\ pending' = Tail(pending)
  /\ status' = "running"
  /\ ret' = "none"
  /\ out' = <<>>
  /\ lookups' = <<>>
  /\ acquired' = 0
  /\ released' = 0
  /\ cur' = Head(pending)
  /\ UNCHANGED <<heap, refs, errPending, done>>

\* the top-level serialize() has returned to its caller
Finish ==
  /\ status = "running"
  /\ stack = <<>>
  /\ ret # "none"
  /\ done' = Append(done, [ptr |-> cur.ptr, default |-> cur.default, res |-> ret,
                           out |-> out, acquired |-> acquired,
                           released |-> released, lookups |-> lookups])
  /\ status' = "idle"
  /\ ret' = "none"
  /\ UNCHANGED <<heap, pending, stack, out, refs, acquired, released, errPending,
                 lookups, cur>>

(* --------------------- DataclassGenericSerializer --------------------- *)
\* PyErr_Clear()
PyErr_Clear(err) == FALSE

\* mutant: the __slots__ test is left out
Route_IgnoresSlots(null, slots) ==
  IF null THEN "ret_null" ELSE "ret_fast"

\* the branch taken at lines 39-62
Route(null, slots) ==
  IF null THEN "ret_null"
  ELSE IF slots THEN "ret_slots"
  ELSE "ret_fast"

\* mutant: the __slots__ branch forgets its Py_DECREF
DecrefOnReturn_FastOnly(pc) == pc = "ret_fast"

\* Py_DECREF(dict) after the delegated call, per branch
DecrefOnReturn(pc) == pc \in {"ret_slots", "ret_fast"}

\* mutant: __dict__ is fetched before the recursion limit is tested
GenericSerialize_AcquireFirst ==
  /\ Running("generic", "enter")
  /\ LET f == Top
         dict == GetAttrDict(f.ptr)
         branch == Route(dict.null, HasSlots(f.ptr))
         callee == IF branch = "ret_fast"
                     THEN FastNew(f.ptr, f.state, f.default)
                     ELSE FallbackNew(f.ptr, f.state, f.default)
     IN  /\ refs' = IF dict.null THEN refs ELSE [refs EXCEPT ![f.ptr] = @ + 1]
         /\ acquired' = IF dict.null THEN acquired ELSE acquired + 1
         /\ errPending' = IF branch = "ret_null" THEN PyErr_Clear(dict.err)
                          ELSE dict.err
         /\ IF recursion_limit(f.state)
              THEN stack' = Pop /\ ret' = "RecursionLimit"
              ELSE /\ stack' = Append(SetTop([f EXCEPT !.pc = branch]), callee)
                   /\ ret' = "none"
  /\ UNCHANGED <<heap, pending, out, released, lookups, status, cur, done>>

GenericSerialize ==
  /\ Running("generic", "enter")
  /\ LET f == Top IN
     IF recursion_limit(f.state)
       THEN /\ stack' = Pop
            /\ ret' = "RecursionLimit"
            /\ UNCHANGED <<refs, acquired, errPending>>
       ELSE LET dict == GetAttrDict(f.ptr)
                branch == Route(dict.null, HasSlots(f.ptr))
                callee == IF branch = "ret_fast"
                            THEN FastNew(f.ptr, f.state, f.default)
                            ELSE FallbackNew(f.ptr, f.state, f.default)
            IN  /\ refs' = IF dict.null THEN refs
                           ELSE [refs EXCEPT ![f.ptr] = @ + 1]
                /\ acquired' = IF dict.null THEN acquired ELSE acquired + 1
                /\ errPending' = IF branch = "ret_null" THEN PyErr_Clear(dict.err)
                                 ELSE dict.err
                /\ stack' = Append(SetTop([f EXCEPT !.pc = branch]), callee)
                /\ ret' = "none"
  /\ UNCHANGED <<heap, pending, out, released, lookups, status, cur, done>>

GenericReturn ==
  /\ status = "running"
  /\ stack # <<>>
  /\ Top.fn = "generic"
  /\ Top.pc \in {"ret_null", "ret_slots", "ret_fast"}
  /\ ret # "none"
  /\ refs' = IF DecrefOnReturn(Top.pc) THEN [refs EXCEPT ![Top.ptr] = @ - 1]
             ELSE refs
  /\ released' = IF DecrefOnReturn(Top.pc) THEN released + 1 ELSE released
  /\ stack' = Pop
  /\ UNCHANGED <<heap, pending, ret, out, acquired, errPending, lookups, status,
                 cur, done>>

(* ---------------------- shared by both map loops ---------------------- *)
\* mutant: the underscore filter never fires
FirstByteIsUnderscore_Never(bytes) == FALSE

\* key_as_str.as_bytes()[0] == b'_'   (the caller guards the index)
FirstByteIsUnderscore(bytes) == bytes[1] = Underscore

\* the index expression as_bytes()[0] is in bounds
IndexInBounds(bytes) == Len(bytes) > 0

\* mutant: the nested call's error is dropped
Question_Swallow(r) == "continue"

\* map.serialize_value(&pyvalue)?  once the nested call has returned
Question(r) == IF r = "Ok" THEN "continue" ELSE "return"

\* mutant: one counter, advanced in place by every sibling
ValueState_Shared(f) == f.state + (f.i - 1)

\* the state the wrapped value carries: self.state
ValueState(f) == f.state

\* map.serialize_key(..); map.serialize_value(&pyvalue) up to the point
\* where the value serializer either finishes (scalar) or recurses (record)
EmitEntry(f, name, value) ==
  LET pyvalue == EvValue(value, ValueState(f), f.default)
  IN  /\ out' = out \o <<EvKey(name, f.state), pyvalue>>
      /\ IF value.isRec
           THEN stack' = Append(SetTop([f EXCEPT !.pc = "wait"]),
                                GenericNew(value.id, pyvalue.state, pyvalue.default))
           ELSE stack' = SetTop([f EXCEPT !.i = @ + 1])
      /\ ret' = "none"
      /\ UNCHANGED status

Continue(f) ==
  /\ stack' = SetTop([f EXCEPT !.i = @ + 1])
  /\ UNCHANGED <<out, ret, status>>

ReturnErr(e) ==
  /\ stack' = Pop
  /\ ret' = e
  /\ UNCHANGED <<out, status>>

\* index out of bounds: the Rust runtime panics and the call never returns
Panic ==
  /\ status' = "panic"
  /\ UNCHANGED <<stack, out, ret>>

(* ----------------------- DataclassFastSerializer ---------------------- *)
FastBegin ==
  /\ Running("fast", "enter")
  /\ LET len == Len(Store(Top.ptr)) IN
     IF len = 0
       THEN /\ out' = Append(out, EvEmpty)
            /\ stack' = Pop
            /\ ret' = "Ok"
       ELSE /\ out' = Append(out, EvBegin)
            /\ stack' = SetTop([Top EXCEPT !.pc = "loop", !.i = 1])
            /\ ret' = "none"
  /\ UNCHANGED <<heap, pending, refs, acquired, released, errPending, lookups,
                 status, cur, done>>

FastEntry ==
  /\ Running("fast", "loop")
  /\ Top.i <= Len(Store(Top.ptr))
  /\ LET f == Top
         key == Store(f.ptr)[f.i].key
         value == Store(f.ptr)[f.i].val
     IN  IF ~IsStrType(key) THEN ReturnErr("KeyMustBeStr")
         ELSE IF ~ToStrIsSome(key) THEN ReturnErr("InvalidStr")
         ELSE IF ~IndexInBounds(key.bytes) THEN Panic
         ELSE IF FirstByteIsUnderscore(key.bytes) THEN Continue(f)
         ELSE EmitEntry(f, key.bytes, value)
  /\ UNCHANGED <<heap, pending, refs, acquired, released, errPending, lookups,
                 cur, done>>

FastValueReturn ==
  /\ Running("fast", "wait")
  /\ ret # "none"
  /\ IF Question(ret) = "continue"
       THEN /\ stack' = SetTop([Top EXCEPT !.pc = "loop", !.i = @ + 1])
            /\ ret' = "none"
       ELSE /\ stack' = Pop
            /\ ret' = ret
  /\ UNCHANGED <<heap, pending, out, refs, acquired, released, errPending,
                 lookups, status, cur, done>>

FastEnd ==
  /\ Running("fast", "loop")
  /\ Top.i > Len(Store(Top.ptr))
  /\ out' = Append(out, EvEnd)
  /\ stack' = Pop
  /\ ret' = "Ok"
  /\ UNCHANGED <<heap, pending, refs, acquired, released, errPending, lookups,
                 status, cur, done>>

(* --------------------- DataclassFallbackSerializer -------------------- *)
\* mutant: the descriptor's kind is not compared
IsOrdinaryField_Any(field_type) == TRUE

\* core::ptr::eq(field_type, FIELD_TYPE)
IsOrdinaryField(field_type) == field_type = FIELD_TYPE

FallbackBegin ==
  /\ Running("fallback", "enter")
  /\ LET len == Len(Fields(Top.ptr)) IN
     IF len = 0
       THEN /\ out' = Append(out, EvEmpty)
            /\ stack' = Pop
            /\ ret' = "Ok"
       ELSE /\ out' = Append(out, EvBegin)
            /\ stack' = SetTop([Top EXCEPT !.pc = "loop", !.i = 1])
            /\ ret' = "none"
  /\ UNCHANGED <<heap, pending, refs, acquired, released, errPending, lookups,
                 status, cur, done>>

FallbackEntry ==
  /\ Running("fallback", "loop")
  /\ Top.i <= Len(Fields(Top.ptr))
  /\ LET f == Top
         attr == Fields(f.ptr)[f.i].attr
         field_type == Fields(f.ptr)[f.i].field_type
     IN  IF ~IsOrdinaryField(field_type)
           THEN Continue(f) /\ UNCHANGED lookups
         ELSE IF ~ToStrIsSome(attr)
           THEN ReturnErr("InvalidStr") /\ UNCHANGED lookups
         ELSE IF ~IndexInBounds(attr.bytes)
           THEN Panic /\ UNCHANGED lookups
         ELSE IF FirstByteIsUnderscore(attr.bytes)
           THEN Continue(f) /\ UNCHANGED lookups
         ELSE /\ lookups' = Append(lookups, [ptr |-> f.ptr, attr |-> attr.bytes])
              /\ EmitEntry(f, attr.bytes, GetAttrValue(f.ptr, attr))
  /\ UNCHANGED <<heap, pending, refs, acquired, released, errPending, cur, done>>

FallbackValueReturn ==
  /\ Running("fallback", "wait")
  /\ ret # "none"
  /\ IF Question(ret) = "continue"
       THEN /\ stack' = SetTop([Top EXCEPT !.pc = "loop", !.i = @ + 1])
            /\ ret' = "none"
       ELSE /\ stack' = Pop
            /\ ret' = ret
  /\ UNCHANGED <<heap, pending, out, refs, acquired, released, errPending,
                 lookups, status, cur, done>>

FallbackEnd ==
  /\ Running("fallback", "loop")
  /\ Top.i > Len(Fields(Top.ptr))
  /\ out' = Append(out, EvEnd)
  /\ stack' = Pop
  /\ ret' = "Ok"
  /\ UNCHANGED <<heap, pending, refs, acquired, released, errPending, lookups,
                 status, cur, done>>

(* --------------------------- specification ---------------------------- *)
Next ==
  \/ Dumps
  \/ GenericSerialize
  \/ GenericReturn
  \/ FastBegin
  \/ FastEntry
  \/ FastValueReturn
  \/ FastEnd
  \/ FallbackBegin
  \/ FallbackEntry
  \/ FallbackValueReturn
  \/ FallbackEnd
  \/ Finish

Spec == Init /\ [][Next]_vars

SpecEq == InitEq /\ [][Next]_vars

(* ------------------- what the properties talk about ------------------- *)
Errors == {"RecursionLimit", "KeyMustBeStr", "InvalidStr"}

IsPrivateName(bytes) == Len(bytes) > 0 /\ bytes[1] = Underscore

\* a key that neither fails a check nor is empty
SoundKey(key) == key.ty = "str" /\ key.ok /\ Len(key.bytes) > 0

\* the members of instance r that either serializer would emit
Emitted(r) ==
  SelectSeq(heap[r].members,
            LAMBDA m : m.kind = FIELD_TYPE /\ SoundKey(m.key) /\ ~IsPrivateName(m.key.bytes))

Range(s) == { s[i] : i \in DOMAIN s }

\* some chain of emitted record-valued members leads from instance r, met
\* at depth d, to an instance at depth Limit
RECURSIVE DeepChain(_, _)
DeepChain(r, d) ==
  \/ d >= Limit
  \/ \E m \in Range(Emitted(r)) : m.val.isRec /\ DeepChain(m.val.id, d + 1)

\* every member that is not elided by its kind carries a sound key
SoundHeap ==
  \A r \in RecIds : \A m \in Range(heap[r].members) :
    m.kind = FIELD_TYPE => SoundKey(m.key)

RoutedFast(r) == heap[r].hasDict /\ ~heap[r].slots

\* the keys the serializer of the top-level record itself emitted
RootKeys(log) ==
  LET ks == SelectSeq(log, LAMBDA e : e.ev = "key" /\ e.state = 1)
  IN  [ i \in 1..Len(ks) |-> ks[i].name ]

Names(ms) == [ i \in 1..Len(ms) |-> ms[i].key.bytes ]

CountEv(log, ev, n) == Cardinality({ i \in 1..n : log[i].ev = ev })

(* ------------------------------- C1 ----------------------------------- *)
\* C1: a DataclassGenericSerializer entered with a state at the recursion
\* limit returns RecursionLimit in that very step: no __dict__ reference is
\* taken, no serializer is created, nothing reaches the sink, no attribute is
\* looked up.  And for instance graphs whose keys are all sound, the
\* top-level call returns RecursionLimit exactly when a chain of emitted
\* nested records reaches depth Limit, and Ok otherwise.
C1_AtLimitNoWork ==
  (Running("generic", "enter") /\ recursion_limit(Top.state))
    => /\ ret' = "RecursionLimit"
       /\ stack' = Pop
       /\ UNCHANGED <<out, refs, acquired, released, errPending, lookups>>

C1_Outcome ==
  \A k \in DOMAIN done :
    SoundHeap =>
      done[k].res = IF DeepChain(done[k].ptr, 0) THEN "RecursionLimit" ELSE "Ok"

C1_RecursionLimit == [][C1_AtLimitNoWork]_vars /\ []C1_Outcome

C1_Witness ==
  /\ done # <<>>
  /\ SoundHeap
  /\ done[1].res = "RecursionLimit"
  /\ done[1].acquired = Limit

(* ------------------------------- C2 ----------------------------------- *)
\* C2: every dispatcher frame that is past its __dict__ lookup on an
\* instance that has a __dict__ holds exactly one reference to it until the
\* frame returns, whatever the delegated serializer returned and whichever
\* branch was taken; a frame whose lookup failed holds none and drops none.
\* When a top-level call has returned, as many references were dropped as
\* were obtained and none is left.
HoldingFrames(r) ==
  { k \in DOMAIN stack :
      /\ stack[k].fn = "generic"
      /\ stack[k].ptr = r
      /\ stack[k].pc # "enter"
      /\ heap[r].hasDict }

C2_StoreReleased ==
  /\ \A r \in DOMAIN refs : refs[r] = Cardinality(HoldingFrames(r))
  /\ acquired - released = Cardinality({ k \in DOMAIN stack :
                                           stack[k].ptr \in DOMAIN refs
                                           /\ k \in HoldingFrames(stack[k].ptr) })
  /\ \A k \in DOMAIN done : done[k].released = done[k].acquired

C2_Witness ==
  /\ done # <<>>
  /\ done[1].res = "KeyMustBeStr"
  /\ heap[1].hasDict /\ heap[1].slots
  /\ done[1].acquired = 2
  /\ done[1].released = 2

(* ------------------------------- C3 ----------------------------------- *)
\* C3: no key that begins with an underscore reaches the sink, from either
\* serializer; no such attribute is looked up; a value is only ever wrapped
\* right after its own key was emitted; a call that returns Ok has emitted,
\* in order, exactly the record's members with a non-underscore name; and
\* when the only chains to the depth limit lead through underscore members,
\* the call returns Ok.
C3_PrivateSkipped ==
  /\ \A i \in DOMAIN out : out[i].ev = "key" => ~IsPrivateName(out[i].name)
  /\ \A i \in DOMAIN lookups : ~IsPrivateName(lookups[i].attr)
  /\ \A i \in DOMAIN out : out[i].ev = "value" => (i > 1 /\ out[i - 1].ev = "key")
  /\ \A k \in DOMAIN done :
       /\ done[k].res = "Ok" => RootKeys(done[k].out) = Names(Emitted(done[k].ptr))
       /\ (SoundHeap /\ ~DeepChain(done[k].ptr, 0)) => done[k].res = "Ok"

\* the deepest instance was serialized and holds an underscore member whose
\* value is a record at the depth limit
C3_Witness ==
  /\ done # <<>>
  /\ done[1].res = "Ok"
  /\ \E i \in DOMAIN done[1].out :
       done[1].out[i].ev = "value" /\ done[1].out[i].val = Rec(Limit)
  /\ \E m \in Range(heap[Limit].members) :
       m.kind = FIELD_TYPE /\ IsPrivateName(m.key.bytes) /\ m.val.isRec

(* ------------------------------- C4 ----------------------------------- *)
\* C4: a dispatcher past the limit test has exactly one callee, on the same
\* instance, one level deeper, with the same default: the fast serializer
\* when the instance has a __dict__ and its type no __slots__, the fallback
\* serializer otherwise.  Only an instance routed to the fast serializer has
\* its __dict__ read, so a top-level record that is not never yields
\* KeyMustBeStr from its own keys, and one that is makes no attribute
\* lookup.  The error indicator is clear in every state.
Callee(r) == IF RoutedFast(r) THEN "fast" ELSE "fallback"

C4_Routing ==
  /\ \A k \in DOMAIN stack :
       IF stack[k].fn = "generic"
         THEN (k < Len(stack) =>
                 /\ stack[k].pc # "enter"
                 /\ stack[k + 1].fn = Callee(stack[k].ptr)
                 /\ stack[k + 1].ptr = stack[k].ptr
                 /\ stack[k + 1].state = stack[k].state + 1
                 /\ stack[k + 1].default = stack[k].default)
         ELSE k > 1 /\ stack[k - 1].fn = "generic" /\ stack[k - 1].ptr = stack[k].ptr
  /\ errPending = FALSE
  /\ \A k \in DOMAIN done :
       LET r == done[k].ptr IN
         /\ (~RoutedFast(r) /\ \A m \in Range(heap[r].members) : ~m.val.isRec)
              => done[k].res # "KeyMustBeStr"
         /\ RoutedFast(r) => \A i \in DOMAIN done[k].lookups : done[k].lookups[i].ptr # r

C4_Witness ==
  /\ done # <<>>
  /\ done[1].res = "Ok"
  /\ heap[1].hasDict /\ heap[1].slots
  /\ done[1].acquired = 1
  /\ \E m \in Range(heap[1].members) : m.key.ty = "int"
  /\ Len(done[1].lookups) > 0

(* ------------------------------- C5 ----------------------------------- *)
\* C5: a record with a __dict__ of scalar values, serialized by the fast
\* path, returns Ok when every key is sound; otherwise the first key in
\* iteration order that is not text-typed gives KeyMustBeStr, or that is
\* text-typed but undecodable gives InvalidStr (also when its content would
\* begin with an underscore), the keys emitted are the non-underscore keys
\* before it, and nothing is emitted for the faulty entry.  No emitted key
\* is ever the content of a faulty key.
Faulty(key) == key.ty # "str" \/ ~key.ok

FirstUnsound(st) ==
  LET bad == { i \in DOMAIN st : ~SoundKey(st[i].key) }
  IN  IF bad = {} THEN Len(st) + 1
      ELSE CHOOSE j \in bad : \A i \in bad : j <= i

PublicBefore(st, j) ==
  LET ms == SelectSeq(SubSeq(st, 1, j - 1), LAMBDA e : ~IsPrivateName(e.key.bytes))
  IN  [ i \in 1..Len(ms) |-> ms[i].key.bytes ]

C5_KeyFaults ==
  /\ \A i \in DOMAIN out :
       out[i].ev = "key" =>
         \A r \in DOMAIN heap : \A m \in Range(heap[r].members) :
           Faulty(m.key) => m.key.bytes # out[i].name
  /\ \A k \in DOMAIN done :
       LET r == done[k].ptr
           st == Store(r)
           j == FirstUnsound(st)
       IN  (RoutedFast(r) /\ \A i \in DOMAIN st : ~st[i].val.isRec) =>
             IF j > Len(st) THEN done[k].res = "Ok"
             ELSE /\ Faulty(st[j].key)
                  /\ done[k].res = IF st[j].key.ty # "str" THEN "KeyMustBeStr"
                                   ELSE "InvalidStr"
                  /\ RootKeys(done[k].out) = PublicBefore(st, j)
                  /\ Len(done[k].out) = 1 + 2 * Len(PublicBefore(st, j))

\* an undecodable key after an emitted entry
C5_Witness ==
  /\ done # <<>>
  /\ RoutedFast(1)
  /\ done[1].res = "InvalidStr"
  /\ Len(done[1].out) = 3
  /\ Len(Store(1)) = 2
  /\ IsPrivateName(Store(1)[2].key.bytes)

(* ------------------------------- C6 ----------------------------------- *)
\* C6: when a record's __dict__ and another record's declared fields hold
\* the same names in the same order, every descriptor is of kind _FIELD,
\* every name is decodable text and the values are the same, the fast
\* serializer on the first and the fallback serializer on the second (whose
\* __dict__ lookup fails) hand the sink the same sequence of keys and
\* wrapped values, with the same states, and return the same result.
Matched(a, b) ==
  /\ RoutedFast(a)
  /\ ~heap[b].hasDict
  /\ ~heap[b].slots
  /\ Len(Store(a)) = Len(Fields(b))
  /\ \A i \in DOMAIN Store(a) :
       /\ Store(a)[i].key = Fields(b)[i].attr
       /\ Store(a)[i].key.ty = "str"
       /\ Store(a)[i].key.ok
       /\ Fields(b)[i].field_type = FIELD_TYPE
       /\ Store(a)[i].val = GetAttrValue(b, Fields(b)[i].attr)

C6_FastEqualsFallback ==
  \A j, k \in DOMAIN done :
    (Matched(done[j].ptr, done[k].ptr) /\ done[j].default = done[k].default)
      => /\ done[j].res = done[k].res
         /\ done[j].out = done[k].out

\* both calls returned Ok on a record with an underscore member and an
\* emitted nested record
C6_Witness ==
  /\ Len(done) = 2
  /\ Matched(done[1].ptr, done[2].ptr)
  /\ done[1].res = "Ok"
  /\ Len(done[2].lookups) > 0
  /\ \E m \in Range(heap[1].members) : IsPrivateName(m.key.bytes)
  /\ \E i \in DOMAIN done[1].out : done[1].out[i].ev = "value" /\ done[1].out[i].val.isRec

(* ------------------------------- C7 ----------------------------------- *)
\* C7: once a frame has returned an error, every further step only pops the
\* enclosing frame and hands the same error on: nothing more reaches the
\* sink, no attribute is looked up, no __dict__ is fetched, and the
\* top-level caller gets that error.  The error a call returns is the first
\* fault met walking the records depth-first in iteration order, and the
\* maps open at that moment are never closed.
RECURSIVE FirstFault(_, _), ScanFault(_, _, _)
FirstFault(r, d) ==
  IF d >= Limit THEN "RecursionLimit"
  ELSE ScanFault(IF RoutedFast(r)
                   THEN SelectSeq(heap[r].members, LAMBDA m : m.kind = FIELD_TYPE)
                   ELSE SelectSeq(heap[r].members,
                                  LAMBDA m : m.key.ty = "str" /\ m.kind = FIELD_TYPE),
                 1, d)

ScanFault(ms, i, d) ==
  IF i > Len(ms) THEN "Ok"
  ELSE IF ms[i].key.ty # "str" THEN "KeyMustBeStr"
  ELSE IF ~ms[i].key.ok THEN "InvalidStr"
  ELSE IF Len(ms[i].key.bytes) = 0 THEN "panic"
  ELSE IF IsPrivateName(ms[i].key.bytes) \/ ~ms[i].val.isRec THEN ScanFault(ms, i + 1, d)
  ELSE LET x == FirstFault(ms[i].val.id, d + 1)
       IN  IF x = "Ok" THEN ScanFault(ms, i + 1, d) ELSE x

C7_Propagates ==
  (status = "running" /\ ret \in Errors)
    => /\ UNCHANGED <<out, lookups, acquired, errPending>>
       /\ IF stack = <<>>
            THEN /\ Len(done') = Len(done) + 1
                 /\ done'[Len(done')].res = ret
                 /\ done'[Len(done')].out = out
            ELSE stack' = Pop /\ ret' = ret

C7_Outcome ==
  \A k \in DOMAIN done :
    /\ done[k].res = FirstFault(done[k].ptr, 0)
    /\ LET log == done[k].out
           open == CountEv(log, "begin", Len(log)) - CountEv(log, "end", Len(log))
       IN  IF done[k].res = "Ok" THEN open = 0 ELSE open > 0

C7_FirstError == [][C7_Propagates]_vars /\ []C7_Outcome

\* a nested call's error reaches the enclosing loop with entries left
C7_Witness ==
  /\ status = "running"
  /\ ret = "KeyMustBeStr"
  /\ Len(stack) = 2
  /\ Top.fn = "fast"
  /\ Top.pc = "wait"
  /\ Top.i < Len(Store(Top.ptr))

(* ------------------------------- C8 ----------------------------------- *)
\* C8: a record serialized by the fallback path that returns Ok has
\* emitted, and looked up, in declared order exactly its descriptors of
\* kind _FIELD with a non-underscore name; no attribute of any other kind
\* is ever looked up; descriptors of another kind cannot make the call
\* fail, whatever their name or value; and the type with slots, a field
\* "a" of kind _FIELD and a field "b" of another kind, both scalar, gives
\* the one-entry map of "a".
LookupsOn(log, r) ==
  LET ls == SelectSeq(log, LAMBDA l : l.ptr = r)
  IN  [ i \in 1..Len(ls) |-> ls[i].attr ]

OrdinarySoundScalar(r) ==
  \A m \in Range(heap[r].members) :
    (m.kind = FIELD_TYPE /\ m.key.ty = "str") => (SoundKey(m.key) /\ ~m.val.isRec)

C8_OrdinaryOnly ==
  /\ \A i \in DOMAIN lookups :
       \E m \in Range(heap[lookups[i].ptr].members) :
         /\ m.key.ty = "str"
         /\ m.key.bytes = lookups[i].attr
         /\ m.kind = FIELD_TYPE
  /\ \A k \in DOMAIN done :
       LET r == done[k].ptr IN
         ~RoutedFast(r) =>
           /\ done[k].res = "Ok" =>
                /\ RootKeys(done[k].out) = Names(Emitted(r))
                /\ LookupsOn(done[k].lookups, r) = Names(Emitted(r))
           /\ OrdinarySoundScalar(r) => done[k].res = "Ok"
           /\ ( /\ heap[r].slots
                /\ Len(heap[r].members) = 2
                /\ heap[r].members[1] = [key |-> MkKey("plain", 1), kind |-> FIELD_TYPE,
                                         val |-> Scalar]
                /\ heap[r].members[2].key = MkKey("plain", 2)
                /\ heap[r].members[2].kind # FIELD_TYPE )
              => done[k].out = << EvBegin, EvKey(MkKey("plain", 1).bytes, 1),
                                  EvValue(Scalar, 1, done[k].default), EvEnd >>

\* a derived descriptor with an undecodable name and a record value, beside
\* an emitted field
C8_Witness ==
  /\ done # <<>>
  /\ done[1].res = "Ok"
  /\ ~RoutedFast(1)
  /\ Len(Emitted(1)) = 1
  /\ \E m \in Range(heap[1].members) :
       m.kind # FIELD_TYPE /\ ~m.key.ok /\ m.val.isRec

(* ------------------------------- C9 ----------------------------------- *)
\* C9: the state of every frame equals the number of dispatchers below it
\* on the stack; every key and every wrapped value carries a state equal to
\* the number of maps open at that point of the output, so all the fields
\* of one record carry the same state, one more than the record's own, and
\* every wrapped value carries the default of the top-level call.  A call
\* returns RecursionLimit only if a chain of emitted nested records reaches
\* depth Limit.
OpenMaps(log, i) == CountEv(log, "begin", i) - CountEv(log, "end", i)

C9_DepthThreaded ==
  /\ \A k \in DOMAIN stack :
       /\ stack[k].state = Cardinality({ j \in 1..(k - 1) : stack[j].fn = "generic" })
       /\ stack[k].default = cur.default
  /\ \A i \in DOMAIN out :
       out[i].ev \in {"key", "value"} =>
         /\ out[i].state = OpenMaps(out, i - 1)
         /\ out[i].ev = "value" => out[i].default = cur.default
  /\ \A k \in DOMAIN done :
       done[k].res = "RecursionLimit" => DeepChain(done[k].ptr, 0)

\* two sibling nested records, the first of which has been serialized
C9_Witness ==
  /\ done # <<>>
  /\ done[1].res = "Ok"
  /\ \E i, j \in DOMAIN done[1].out :
       /\ i < j
       /\ done[1].out[i].ev = "value" /\ done[1].out[i].val.isRec
       /\ done[1].out[j].ev = "value" /\ done[1].out[j].val.isRec
       /\ done[1].out[i].state = 1
       /\ done[1].out[j].state = 1

(* ------------------------------- C10 ---------------------------------- *)
\* C10: for every text-typed, decodable key or field name, the empty name
\* included, the underscore filter decides without aborting: a call ends
\* with a mapping or a typed error and never in a crash.
C10_NeverCrashes == status # "panic"

====
